---- MODULE Spec2Model ----
(***************************************************************************)
(* Model of the thread-ingestion pipeline of cs182-ec-a:                   *)
(*   thread_util/fetch_threads.py   paginated fetch, attachment pipeline,  *)
(*                                  manifest bookkeeping (main)            *)
(*   fetch_threads.py               the older copy of the fetch loop       *)
(*   special_participation_site/scripts/process_data.py                    *)
(*                                  the classification loop (main)         *)
(* Strings are sequences of one-character strings, so that sanitizing,     *)
(* suffix tests and path joins are computed character by character.        *)
(***************************************************************************)
EXTENDS Integers, Sequences, FiniteSets, TLC

VARIABLES
  \* ---- thread_util/fetch_threads.py -------------------------------------
  pc,               \* position of main / fetch_all_threads
  download_files,   \* not args.no_download
  batch_size,       \* parameter of fetch_all_threads
  remote,           \* the threads the remote source (or the local file) holds
  remote_honest,    \* whether the remote source returns exactly the page asked for
  offset,           \* local of fetch_all_threads
  requests,         \* every list_threads call issued so far, in order
  all_threads,      \* local of fetch_all_threads / main
  filtered_threads, \* local of main
  ti,               \* index of main's loop over filtered_threads
  files,            \* process_thread_files: the scanned references
  fi,               \* index of process_thread_files' loop over files
  processed_files,  \* process_thread_files: the records built so far
  files_manifest,   \* main: thread number -> entry
  dirs,             \* directories that exist on disk
  disk,             \* files on disk: path -> what was written last
  log,              \* the lines printed for failures, in order
  manifest_json,    \* contents of manifest.json  ("absent" before it is written)
  threads_json,     \* contents of threads.json   ("absent" before it is written)
  \* ---- what happened (history, read only by the properties) --------------
  attempts,         \* [thread, position, kind, result] of every attachment step
  results,          \* thread index -> what process_thread_files returned
  \* ---- sanitize_filename applied repeatedly ------------------------------
  sanIn, sanOut,
  \* ---- process_data.py main ---------------------------------------------
  cpc,              \* position of process_data.main
  threads_raw,      \* json.load(threads.json)
  ci,               \* index of the loop over threads_raw
  processed,        \* the classified posts built so far
  clog,             \* the lines printed by the except branch
  posts_json,       \* contents of posts_processed.json ("absent" before it is written)
  \* ---- process_data.py process_thread on one record ----------------------
  raw_title,        \* raw["title"]
  raw_document,     \* raw["document"]
  metrics,          \* the Metrics built by process_thread (<<>> before the call)
  \* ---- how the record was put together (read only by the properties) -----
  oracle

fetchVars == <<pc, download_files, batch_size, remote, remote_honest, offset, requests, all_threads,
               filtered_threads, ti, files, fi, processed_files, files_manifest,
               dirs, disk, log, manifest_json, threads_json, attempts, results>>
sanVars == <<sanIn, sanOut>>
classifyVars == <<cpc, threads_raw, ci, processed, clog, posts_json>>
metricVars == <<raw_title, raw_document, metrics, oracle>>
vars == <<fetchVars, sanVars, classifyVars, metricVars>>

----------------------------------------------------------------------------
(* Bounds of the model *)

MaxLen == 3          \* longest file name enumerated character by character
MaxBatch == 3        \* largest batch_size tried besides the default
MaxRemote == 6       \* most threads a remote source holds besides the 150 case
MaxThreads == 2      \* most threads of a driver run
MaxRefs == 3         \* most attachment references in one thread body
MaxPages == 2        \* most pages of a PDF
MaxRaw == 3          \* most records in threads.json
MaxFrags == 2        \* most fragments a classified text is put together from
Slack == 3           \* how far around each threshold the sizes of a text go

(* Program constants *)

DefaultBatchSize == 100

----------------------------------------------------------------------------
(* Generic helpers *)

Min(a, b) == IF a < b THEN a ELSE b

SeqsUpTo(S, n) == UNION {[1..k -> S] : k \in 0..n}

Range(s) == {s[i] : i \in DOMAIN s}

RECURSIVE Concat(_)
Concat(ss) == IF ss = <<>> THEN <<>> ELSE Head(ss) \o Concat(Tail(ss))

Str(s) == [i \in 1..Len(s) |-> s[i]]

----------------------------------------------------------------------------
(* sanitize_filename *)

\* the character class of the re.sub:  < > : " / \ | ? *
BadChars == {"<", ">", ":", "\"", "/", "\\", "|", "?", "*"}

\* the characters str.strip('. ') removes
StripChars == {".", " "}

ReplaceBad(name) == [i \in 1..Len(name) |-> IF name[i] \in BadChars THEN "_" ELSE name[i]]

RECURSIVE LStrip(_, _)
LStrip(s, cs) == IF s # <<>> /\ Head(s) \in cs THEN LStrip(Tail(s), cs) ELSE s

RECURSIVE RStrip(_, _)
RStrip(s, cs) ==
  IF s # <<>> /\ s[Len(s)] \in cs THEN RStrip(SubSeq(s, 1, Len(s) - 1), cs) ELSE s

Strip(s, cs) == RStrip(LStrip(s, cs), cs)

\* a sanitizer that trims dots and blanks in two separate passes
sanitize_filename_two_pass(filename) == Strip(Strip(ReplaceBad(filename), {"."}), {" "})

\* a sanitizer that forgets to trim
sanitize_filename_no_strip(filename) == ReplaceBad(filename)

sanitize_filename(filename) == Strip(ReplaceBad(filename), StripChars)

\* the characters file names are enumerated over
Alphabet == BadChars \cup StripChars \cup {"a", "_"}

AllNames == SeqsUpTo(Alphabet, MaxLen) \ {<<>>}

\* one more application of sanitize_filename to the previous result
SanApply ==
  /\ Len(sanOut) < 2
  /\ sanOut' = Append(sanOut, sanitize_filename(IF sanOut = <<>> THEN sanIn ELSE sanOut[Len(sanOut)]))
  /\ UNCHANGED <<sanIn, fetchVars, classifyVars, metricVars>>

----------------------------------------------------------------------------
(* Strings and paths *)

UpperCase == <<"A", "B", "C", "D", "E", "F", "G", "H", "I", "J", "K", "L", "M",
               "N", "O", "P", "Q", "R", "S", "T", "U", "V", "W", "X", "Y", "Z">>
LowerCase == <<"a", "b", "c", "d", "e", "f", "g", "h", "i", "j", "k", "l", "m",
               "n", "o", "p", "q", "r", "s", "t", "u", "v", "w", "x", "y", "z">>

\* str.lower on one ASCII character
ToLower == [c \in Range(UpperCase) |-> LowerCase[CHOOSE i \in 1..26 : UpperCase[i] = c]]

Lower(c) == IF c \in DOMAIN ToLower THEN ToLower[c] ELSE c

LowerStr(s) == [i \in 1..Len(s) |-> Lower(s[i])]

EndsWith(s, suffix) ==
  /\ Len(s) >= Len(suffix)
  /\ SubSeq(s, Len(s) - Len(suffix) + 1, Len(s)) = suffix

\* index of the last "." of s, 0 when there is none
LastDot(s) == IF \E i \in 1..Len(s) : s[i] = "."
              THEN CHOOSE i \in 1..Len(s) : s[i] = "." /\ \A j \in (i+1)..Len(s) : s[j] # "."
              ELSE 0

\* filename.rsplit('.', 1)[0]
RSplitDot(s) == IF LastDot(s) = 0 THEN s ELSE SubSeq(s, 1, LastDot(s) - 1)

\* the components of a path string, split at "/"
RECURSIVE Split(_, _)
Split(s, cur) ==
  IF s = <<>> THEN <<cur>>
  ELSE IF Head(s) = "/" THEN <<cur>> \o Split(Tail(s), <<>>)
  ELSE Split(Tail(s), Append(cur, Head(s)))

Components(s) == Split(s, <<>>)

\* what a path denotes once "", "." and ".." are resolved; <<"<outside>">> when
\* it climbs above the directory it is relative to
RECURSIVE Resolve(_, _)
Resolve(comps, acc) ==
  IF comps = <<>> THEN acc
  ELSE IF Head(comps) \in {<<>>, <<".">>} THEN Resolve(Tail(comps), acc)
  ELSE IF Head(comps) = <<".", ".">>
       THEN IF acc = <<>> THEN << <<"<outside>">> >>
            ELSE Resolve(Tail(comps), SubSeq(acc, 1, Len(acc) - 1))
  ELSE Resolve(Tail(comps), Append(acc, Head(comps)))

IsPrefix(p, q) == Len(p) <= Len(q) /\ SubSeq(q, 1, Len(p)) = p

\* files_dir / f"thread_{thread_num}", as components
ThreadDir(thread_num) == << <<"files">>, <<"thread_", thread_num>> >>

\* thread_dir / filename  (pathlib: an absolute right operand replaces the left)
PathJoin(dir, name) ==
  IF name # <<>> /\ Head(name) = "/" THEN Resolve(Components(name), <<>>)
  ELSE Resolve(dir \o Components(name), <<>>)

\* file_path.with_suffix('.txt')
WithSuffixTxt(path) ==
  LET n == path[Len(path)]
      stem == IF LastDot(n) > 1 THEN SubSeq(n, 1, LastDot(n) - 1) ELSE n
  IN  SubSeq(path, 1, Len(path) - 1) \o <<stem \o Str(<<".", "t", "x", "t">>)>>

\* f"files/thread_{thread_num}/{filename}"
RelativePath(thread_num, filename) == <<"files", "/", "thread_", thread_num, "/">> \o filename

\* Path.write_bytes / write_text raise when the target is a directory or its
\* parent directory does not exist
WriteFails(path, ds) ==
  \/ path = <<>>
  \/ path \in ds
  \/ SubSeq(path, 1, Len(path) - 1) \notin ds

----------------------------------------------------------------------------
(* Threads *)

FILTER_TEXT == "special participation a"

MatchingTitle == "Special Participation A: HW3 with Claude"
OtherTitle == "Office hours moved"

\* text.lower() in title.lower(), tabulated for the titles of the model
thread_contains_text(thread, text) == text = FILTER_TEXT /\ thread.title = MatchingTitle

\* thread.get('number', 'unknown');  "none" stands for a thread without the key
ThreadNum(thread) == IF thread.number = "none" THEN "unknown" ELSE thread.number

NamePdf == <<"a", ".", "p", "d", "f">>
NamePdfUpper == <<"A", ".", "P", "D", "F">>
NameTxt == <<"a", ".", "t", "x", "t">>
NameDots == <<".", ".">>

PipelineNames == {NamePdf, NamePdfUpper, NameTxt, NameDots}

Urls == <<"u1", "u2", "u3", "u4", "u5">>

\* extract_files_from_content: the <file url=... filename=.../> elements of the
\* body in document order; a body is given by the file names of its elements, the
\* k-th element carries url Urls[k] and its position is its rank k
extract_files_from_content(content) ==
  [k \in 1..Len(content) |-> [url |-> Urls[k], filename |-> content[k], position |-> k]]

Thread(i, number, title, content) ==
  [id |-> i, number |-> number, title |-> title, content |-> content]

----------------------------------------------------------------------------
(* fetch_all_threads *)

\* ed.login(): either succeeds or raises, which ends the run
Login ==
  /\ pc = "login"
  /\ \E ok \in BOOLEAN : pc' = IF ok THEN "fetching" ELSE "fatal"
  /\ UNCHANGED <<download_files, batch_size, remote, remote_honest, offset, requests, all_threads,
                 filtered_threads, ti, files, fi, processed_files, files_manifest,
                 dirs, disk, log, manifest_json, threads_json, attempts, results>>
  /\ UNCHANGED <<sanVars, classifyVars, metricVars>>

\* a loop that only stops at an empty page
PageEnds_only_empty(n, limit) == n = 0

\* how list_threads results are judged by the loop
PageEnds(n, limit) == n = 0 \/ n < limit

\* the page sizes list_threads may answer with: an honest source returns the
\* threads it has at this offset, at most limit of them; any other source
\* returns any number of them, up to one more than asked for
PageSizes(limit, off) ==
  IF remote_honest THEN {Min(limit, Len(remote) - off)}
  ELSE 0..Min(limit + 1, Len(remote) - off)

\* one iteration of the while loop: one list_threads call and what follows it
ListThreads ==
  /\ pc = "fetching"
  /\ \E n \in PageSizes(batch_size, offset) :
       LET threads == SubSeq(remote, offset + 1, offset + n) IN
       /\ requests' = Append(requests, [offset |-> offset, limit |-> batch_size, returned |-> n])
       /\ all_threads' = all_threads \o threads
       /\ IF PageEnds(n, batch_size)
          THEN pc' = "fetched" /\ offset' = offset
          ELSE pc' = "fetching" /\ offset' = offset + batch_size
  /\ UNCHANGED <<download_files, batch_size, remote, remote_honest,
                 filtered_threads, ti, files, fi, processed_files, files_manifest,
                 dirs, disk, log, manifest_json, threads_json, attempts, results>>
  /\ UNCHANGED <<sanVars, classifyVars, metricVars>>

PlainThread(i) == Thread(i, "none", OtherTitle, <<>>)

InitRest ==
  /\ offset = 0
  /\ requests = <<>>
  /\ all_threads = <<>>
  /\ filtered_threads = <<>>
  /\ ti = 0
  /\ files = <<>>
  /\ fi = 0
  /\ processed_files = <<>>
  /\ files_manifest = <<>>
  /\ dirs = {<<>>}
  /\ disk = <<>>
  /\ log = <<>>
  /\ manifest_json = <<>>
  /\ threads_json = <<>>
  /\ attempts = {}
  /\ results = <<>>

InitSanIdle == sanIn = <<>> /\ sanOut = <<>>

InitClassifyIdle ==
  /\ cpc = "idle"
  /\ threads_raw = <<>>
  /\ ci = 0
  /\ processed = <<>>
  /\ clog = <<>>
  /\ posts_json = <<>>

InitMetricsIdle ==
  /\ raw_title = <<>>
  /\ raw_document = <<>>
  /\ metrics = <<>>
  /\ oracle = <<>>

\* fetch_all_threads called on its own, for any batch size and remote source
InitFetch ==
  /\ pc = "login"
  /\ download_files = TRUE
  /\ remote_honest \in BOOLEAN
  /\ \E n \in (0..MaxRemote) \cup {150} :
       /\ remote = [i \in 1..n |-> PlainThread(i)]
       /\ batch_size \in IF n <= MaxRemote THEN 1..MaxBatch ELSE {DefaultBatchSize}
  /\ InitRest
  /\ InitSanIdle
  /\ InitClassifyIdle
  /\ InitMetricsIdle

NextFetch == Login \/ ListThreads

SpecFetch == InitFetch /\ [][NextFetch]_vars

\* sanitize_filename called on its own, for any name
InitSan ==
  /\ sanIn \in AllNames
  /\ sanOut = <<>>
  /\ pc = "idle"
  /\ download_files = TRUE
  /\ batch_size = DefaultBatchSize
  /\ remote = <<>>
  /\ remote_honest = TRUE
  /\ InitRest
  /\ InitClassifyIdle
  /\ InitMetricsIdle

NextSan == SanApply

SpecSan == InitSan /\ [][NextSan]_vars

----------------------------------------------------------------------------
(* download_file, pdf_to_text *)

HAVE_FITZ == TRUE

\* a download_file without its try/except
download_file_uncaught(url, dest_path, net_ok, ds) ==
  IF net_ok /\ ~WriteFails(dest_path, ds)
  THEN [ok |-> TRUE, wrote |-> TRUE, lines |-> <<>>, raised |-> FALSE]
  ELSE [ok |-> FALSE, wrote |-> FALSE, lines |-> <<>>, raised |-> TRUE]

\* download_file(url, dest_path): net_ok says whether requests.get and
\* raise_for_status went through.  Returns what the caller sees: the boolean, the
\* line printed, whether the bytes were written, whether an exception escaped.
download_file(url, dest_path, net_ok, ds) ==
  IF net_ok /\ ~WriteFails(dest_path, ds)
  THEN [ok |-> TRUE, wrote |-> TRUE, lines |-> <<>>, raised |-> FALSE]
  ELSE [ok |-> FALSE, wrote |-> FALSE,
        lines |-> <<[kind |-> "Error downloading", unit |-> url]>>, raised |-> FALSE]

\* what fitz does with a file: it fails to open/parse it, or yields its pages,
\* each with or without text
RenderOutcomes == {<<"error">>} \cup {<<"pages", ps>> : ps \in SeqsUpTo({"text", "blank"}, MaxPages)}

\* pdf_to_text(pdf_path): the joined text is given by the numbers of the pages
\* that contribute a "--- Page N ---" part; <<>> is the empty string
pdf_to_text(pdf_path, outcome) ==
  IF ~HAVE_FITZ
  THEN [text |-> <<>>, lines |-> <<[kind |-> "PyMuPDF not installed", unit |-> pdf_path]>>]
  ELSE IF outcome[1] = "error"
  THEN [text |-> <<>>, lines |-> <<[kind |-> "Error extracting text", unit |-> pdf_path]>>]
  ELSE [text |-> SelectSeq([n \in 1..Len(outcome[2]) |-> IF outcome[2][n] = "text" THEN n ELSE 0],
                           LAMBDA n : n # 0),
        lines |-> <<>>]

----------------------------------------------------------------------------
(* main and process_thread_files *)

\* argparse, then the branch on args.local
MainStart ==
  /\ pc = "start"
  /\ \/ pc' = "login" /\ all_threads' = all_threads        \* fetch_all_threads(course_id)
     \/ pc' = "fetched" /\ all_threads' = remote            \* json.load of the local file
  /\ UNCHANGED <<download_files, batch_size, remote, remote_honest, offset, requests,
                 filtered_threads, ti, files, fi, processed_files, files_manifest,
                 dirs, disk, log, manifest_json, threads_json, attempts, results>>
  /\ UNCHANGED <<sanVars, classifyVars, metricVars>>

\* lines 254-266: the filter, files_dir.mkdir, the empty manifest
Filter ==
  /\ pc = "fetched"
  /\ filtered_threads' = SelectSeq(all_threads, LAMBDA t : thread_contains_text(t, FILTER_TEXT))
  /\ dirs' = dirs \cup {<< <<"files">> >>}
  /\ files_manifest' = <<>>
  /\ ti' = 1
  /\ pc' = "loop"
  /\ UNCHANGED <<download_files, batch_size, remote, remote_honest, offset, requests, all_threads,
                 files, fi, processed_files, disk, log, manifest_json, threads_json,
                 attempts, results>>
  /\ UNCHANGED <<sanVars, classifyVars, metricVars>>

\* lines 268-279 and 169-179: the scan; a thread without markup is passed over,
\* otherwise process_thread_files is entered and the thread's directory made
BeginThread ==
  /\ pc = "loop"
  /\ ti <= Len(filtered_threads)
  /\ LET thread == filtered_threads[ti]
         files_in_content == extract_files_from_content(thread.content)
     IN  IF files_in_content = <<>>
         THEN /\ ti' = ti + 1
              /\ UNCHANGED <<pc, files, fi, processed_files, dirs>>
         ELSE /\ files' = files_in_content
              /\ fi' = 1
              /\ processed_files' = <<>>
              /\ dirs' = dirs \cup {ThreadDir(ThreadNum(thread))}
              /\ pc' = "thread"
              /\ UNCHANGED ti
  /\ UNCHANGED <<download_files, batch_size, remote, remote_honest, offset, requests, all_threads,
                 filtered_threads, files_manifest, disk, log, manifest_json, threads_json,
                 attempts, results>>
  /\ UNCHANGED <<sanVars, classifyVars, metricVars>>

\* lines 200-207
FileRecord(file_info, thread_num, filename) ==
  [original_filename |-> file_info.filename,
   saved_as |-> RelativePath(thread_num, filename),
   url |-> file_info.url,
   position |-> file_info.position,
   transcript |-> <<>>]

\* a test that forgets the mode
WantsTranscript_any_mode(dl, filename) == EndsWith(LowerStr(filename), Str(<<".", "p", "d", "f">>))

\* the test of line 210
WantsTranscript(dl, filename) == dl /\ EndsWith(LowerStr(filename), Str(<<".", "p", "d", "f">>))

\* a test that takes any conversion for a transcript
HasText_always(text) == TRUE

\* the test of line 213
HasText(text) == text # <<>>

\* a driver that records every thread it scanned
KeepsEntry_always(recs) == TRUE

\* the test of line 280
KeepsEntry(recs) == recs # <<>>

\* One iteration of the loop of process_thread_files (lines 181-220) on one
\* scanned reference, as a function of what the network (net_ok) and the PDF
\* library (outcome) do; filename is the sanitized name of line 184.  Yields the record appended (<<>> when the reference is
\* skipped), the disk afterwards, the lines printed, whether an exception
\* escaped, and a summary of the step for the history.
ProcessOne(thread_num, file_info, filename, dl, net_ok, outcome, ds, dk) ==
  LET thread_dir == ThreadDir(thread_num)
      file_path == PathJoin(thread_dir, filename)
      got == download_file(file_info.url, file_path, net_ok, ds)
      placed == ~dl /\ ~WriteFails(file_path, ds)
      dk1 == IF dl /\ got.wrote THEN (file_path :> "bytes") @@ dk
             ELSE IF placed THEN (file_path :> "empty") @@ dk
             ELSE dk
      lines1 == IF dl THEN got.lines ELSE <<>>
      file_record == FileRecord(file_info, thread_num, filename)
      wants == WantsTranscript(dl, filename)
      pdf == pdf_to_text(file_path, outcome)
      transcript_path == WithSuffixTxt(file_path)
      transcript_filename == RSplitDot(filename) \o Str(<<".", "t", "x", "t">>)
      base == [network |-> dl,
               download |-> IF ~dl THEN "none" ELSE IF got.ok THEN "ok" ELSE "failed",
               placeholder |-> IF dl THEN "none" ELSE IF placed THEN "ok" ELSE "failed",
               path |-> file_path,
               url |-> file_info.url,
               render |-> "none",
               transcript_written |-> FALSE]
  IN  IF dl /\ got.raised
      THEN [raised |-> TRUE, record |-> <<>>, disk |-> dk, lines |-> lines1, attempt |-> base]
      ELSE IF dl /\ ~got.ok
      THEN [raised |-> FALSE, record |-> <<>>, disk |-> dk, lines |-> lines1, attempt |-> base]
      ELSE IF ~wants
      THEN [raised |-> FALSE, record |-> <<file_record>>, disk |-> dk1, lines |-> lines1,
            attempt |-> base]
      ELSE IF ~HasText(pdf.text)
      THEN [raised |-> FALSE, record |-> <<file_record>>, disk |-> dk1,
            lines |-> lines1 \o pdf.lines,
            attempt |-> [base EXCEPT !.render = IF pdf.lines # <<>> THEN "error" ELSE "empty"]]
      ELSE IF WriteFails(transcript_path, ds)
      THEN [raised |-> TRUE, record |-> <<>>, disk |-> dk1, lines |-> lines1 \o pdf.lines,
            attempt |-> [base EXCEPT !.render = "text"]]
      ELSE [raised |-> FALSE,
            record |-> <<[file_record EXCEPT
                            !.transcript = RelativePath(thread_num, transcript_filename)]>>,
            disk |-> (transcript_path :> "transcript") @@ dk1,
            lines |-> lines1 \o pdf.lines,
            attempt |-> [base EXCEPT !.render = IF pdf.text # <<>> THEN "text" ELSE "empty",
                                     !.transcript_written = TRUE]]

\* a loop that gives the thread up at the first failed download
AfterSkip_break(i, n) == n + 1

\* line 188: `continue` goes on with the next reference
AfterSkip(i, n) == i + 1

\* the network is only asked in download mode
NetOutcomes(dl) == IF dl THEN BOOLEAN ELSE {FALSE}

\* the PDF library is only asked about a file that was fetched and is named *.pdf
PdfOutcomes(fetched, filename) ==
  IF fetched /\ WantsTranscript(TRUE, filename)
  THEN RenderOutcomes ELSE {<<"error">>}

\* one iteration of the loop of process_thread_files; the name is sanitized once
\* (line 184) and the whole iteration is one step
ProcessFile ==
  /\ pc = "thread"
  /\ fi <= Len(files)
  /\ \E filename \in {sanitize_filename(files[fi].filename)} :
     \E net_ok \in NetOutcomes(download_files) :
     \E outcome \in PdfOutcomes(download_files /\ net_ok, filename) :
       \E step \in {ProcessOne(ThreadNum(filtered_threads[ti]), files[fi], filename, download_files,
                              net_ok, outcome, dirs, disk)} :
           /\ disk' = step.disk
           /\ log' = log \o step.lines
           /\ attempts' = attempts \cup {[thread |-> ti, position |-> fi] @@ step.attempt}
           /\ IF step.raised
              THEN pc' = "crashed" /\ UNCHANGED <<fi, processed_files>>
              ELSE /\ pc' = pc
                   /\ fi' = IF step.record = <<>> THEN AfterSkip(fi, Len(files)) ELSE fi + 1
                   /\ processed_files' = processed_files \o step.record
  /\ UNCHANGED <<download_files, batch_size, remote, remote_honest, offset, requests, all_threads,
                 filtered_threads, ti, files, files_manifest, dirs, manifest_json,
                 threads_json, results>>
  /\ UNCHANGED <<sanVars, classifyVars, metricVars>>

\* process_thread_files returns (line 222); lines 280-285 of main
EndThread ==
  /\ pc = "thread"
  /\ fi > Len(files)
  /\ LET thread == filtered_threads[ti] IN
       /\ results' = (ti :> processed_files) @@ results
       /\ files_manifest' =
            IF KeepsEntry(processed_files)
            THEN (ThreadNum(thread) :> [thread_id |-> thread.id,
                                        thread_title |-> thread.title,
                                        files |-> processed_files]) @@ files_manifest
            ELSE files_manifest
  /\ ti' = ti + 1
  /\ pc' = "loop"
  /\ UNCHANGED <<download_files, batch_size, remote, remote_honest, offset, requests, all_threads,
                 filtered_threads, files, fi, processed_files, dirs, disk, log,
                 manifest_json, threads_json, attempts>>
  /\ UNCHANGED <<sanVars, classifyVars, metricVars>>

\* lines 287-291: manifest.json
SaveManifest ==
  /\ pc = "loop"
  /\ ti > Len(filtered_threads)
  /\ manifest_json' = <<files_manifest>>
  /\ pc' = "save_threads"
  /\ UNCHANGED <<download_files, batch_size, remote, remote_honest, offset, requests, all_threads,
                 filtered_threads, ti, files, fi, processed_files, files_manifest, dirs,
                 disk, log, threads_json, attempts, results>>
  /\ UNCHANGED <<sanVars, classifyVars, metricVars>>

\* lines 293-313: threads.json (the summary printed after it is not modelled)
SaveThreads ==
  /\ pc = "save_threads"
  /\ threads_json' = <<filtered_threads>>
  /\ pc' = "done"
  /\ UNCHANGED <<download_files, batch_size, remote, remote_honest, offset, requests, all_threads,
                 filtered_threads, ti, files, fi, processed_files, files_manifest, dirs,
                 disk, log, manifest_json, attempts, results>>
  /\ UNCHANGED <<sanVars, classifyVars, metricVars>>

Next ==
  \/ MainStart
  \/ Login
  \/ ListThreads
  \/ Filter
  \/ BeginThread
  \/ ProcessFile
  \/ EndThread
  \/ SaveManifest
  \/ SaveThreads

\* the bodies a driver run is tried on
DriverContents == {<<>>, <<NamePdf>>, <<NameDots, NameTxt>>}

\* number, title and body of the threads a driver run is tried on
DriverShapes ==
  ({"7", "none"} \X {MatchingTitle} \X DriverContents) \cup {<<"7", OtherTitle, <<>>>>}

\* a run of main on up to MaxThreads threads
Init ==
  /\ pc = "start"
  /\ download_files \in BOOLEAN
  /\ batch_size = DefaultBatchSize
  /\ remote_honest = TRUE
  /\ \E n \in 0..MaxThreads :
       \E f \in [1..n -> DriverShapes] :
         remote = [i \in 1..n |-> Thread(i, f[i][1], f[i][2], f[i][3])]
  /\ InitRest
  /\ InitSanIdle
  /\ InitClassifyIdle
  /\ InitMetricsIdle

Spec == Init /\ [][Next]_vars

\* the characters that matter to a path: the separators, the characters
\* sanitize_filename trims, and an ordinary one
PathAlphabet == {"/", "\\", ".", " ", "a"}

\* the file names a single reference is tried on
ScannableNames == SeqsUpTo(PathAlphabet, MaxLen) \ {<<>>}

\* a run of main on one matching thread, with up to MaxRefs references
InitThread ==
  /\ pc = "start"
  /\ download_files \in BOOLEAN
  /\ batch_size = DefaultBatchSize
  /\ remote_honest = TRUE
  /\ \E number \in {"7", "none"} :
       \E content \in SeqsUpTo(PipelineNames, MaxRefs) \cup {<<n>> : n \in ScannableNames} :
         remote = <<Thread(1, number, MatchingTitle, content)>>
  /\ InitRest
  /\ InitSanIdle
  /\ InitClassifyIdle
  /\ InitMetricsIdle

SpecThread == InitThread /\ [][Next]_vars

FairSpec == Spec /\ WF_vars(Next)

----------------------------------------------------------------------------
(* process_data.py: process_thread and the loop of main *)

\* The records threads.json may hold.  A JSON object is given by what matters
\* to process_thread: its "id" (an integer, a string that is no number, null, or
\* no such key) and its "title" (a string, or a number); anything else in the
\* array is a JSON null or a JSON string.
RawIds == {<<"int", 1>>, <<"int", 2>>, <<"str", 0>>, <<"null", 0>>, <<"missing", 0>>}

RawShapes ==
  {[json |-> "object", id |-> i, title |-> t] : i \in RawIds, t \in {"string", "number"}}
    \cup {[json |-> "null", id |-> <<"missing", 0>>, title |-> "string"],
          [json |-> "string", id |-> <<"missing", 0>>, title |-> "string"]}

\* raw.get("id"): None when the key is missing; raises on what is no dict
HasGet(raw) == raw.json = "object"

RawGetId(raw) == IF raw.id[1] = "missing" THEN <<"null", 0>> ELSE raw.id

\* process_thread(raw): the post, or the exception raised on the way
\*   line 244  raw.get on a non-dict, .strip() on a title that is no string
\*   line 274  raw["id"] of a missing key, int() of null or of a non-number
process_thread(raw) ==
  IF ~HasGet(raw) THEN [ok |-> FALSE, exc |-> "AttributeError", post |-> <<>>]
  ELSE IF raw.title # "string" THEN [ok |-> FALSE, exc |-> "AttributeError", post |-> <<>>]
  ELSE IF raw.id[1] = "missing" THEN [ok |-> FALSE, exc |-> "KeyError", post |-> <<>>]
  ELSE IF raw.id[1] = "null" THEN [ok |-> FALSE, exc |-> "TypeError", post |-> <<>>]
  ELSE IF raw.id[1] = "str" THEN [ok |-> FALSE, exc |-> "ValueError", post |-> <<>>]
  ELSE [ok |-> TRUE, exc |-> "", post |-> <<[id |-> raw.id[2], title |-> raw.title]>>]

\* lines 299-316: the fetch script is missing (a warning, the step is skipped),
\* runs to its end, or exits with an error, which ends this run too
RunFetch ==
  /\ cpc = "start"
  /\ \E outcome \in {"missing", "ok", "failed"} :
       cpc' = IF outcome = "failed" THEN "fatal" ELSE "read"
  /\ UNCHANGED <<threads_raw, ci, processed, clog, posts_json>>
  /\ UNCHANGED <<fetchVars, sanVars, metricVars>>

\* lines 318-328: threads.json must exist and hold an array
ReadThreads ==
  /\ cpc = "read"
  /\ IF threads_raw.kind = "array"
     THEN cpc' = "loop" /\ ci' = 1 /\ processed' = <<>>
     ELSE cpc' = "fatal" /\ UNCHANGED <<ci, processed>>
  /\ UNCHANGED <<threads_raw, clog, posts_json>>
  /\ UNCHANGED <<fetchVars, sanVars, metricVars>>

\* lines 329-335: one record; the except branch prints raw.get('id'), which
\* itself raises when the record is no dict, and nothing catches that
ClassifyOne ==
  /\ cpc = "loop"
  /\ ci <= Len(threads_raw.items)
  /\ LET raw == threads_raw.items[ci]
         r == process_thread(raw)
     IN  IF r.ok
         THEN /\ processed' = processed \o r.post
              /\ ci' = ci + 1
              /\ UNCHANGED <<cpc, clog>>
         ELSE IF HasGet(raw)
         THEN /\ clog' = Append(clog, [kind |-> "Warning: failed to process thread",
                                       id |-> RawGetId(raw), exc |-> r.exc])
              /\ ci' = ci + 1
              /\ UNCHANGED <<cpc, processed>>
         ELSE /\ cpc' = "aborted"
              /\ UNCHANGED <<ci, processed, clog>>
  /\ UNCHANGED <<threads_raw, posts_json>>
  /\ UNCHANGED <<fetchVars, sanVars, metricVars>>

\* lines 337-341: posts_processed.json
WritePosts ==
  /\ cpc = "loop"
  /\ ci > Len(threads_raw.items)
  /\ posts_json' = <<processed>>
  /\ cpc' = "done"
  /\ UNCHANGED <<threads_raw, ci, processed, clog>>
  /\ UNCHANGED <<fetchVars, sanVars, metricVars>>

NextClassify == RunFetch \/ ReadThreads \/ ClassifyOne \/ WritePosts

InitClassify ==
  /\ cpc = "start"
  /\ \/ threads_raw \in {[kind |-> "absent", items |-> <<>>], [kind |-> "object", items |-> <<>>]}
     \/ \E items \in SeqsUpTo(RawShapes, MaxRaw) : threads_raw = [kind |-> "array", items |-> items]
  /\ ci = 0
  /\ processed = <<>>
  /\ clog = <<>>
  /\ posts_json = <<>>
  /\ pc = "idle" /\ download_files = TRUE /\ batch_size = DefaultBatchSize
  /\ remote = <<>> /\ remote_honest = TRUE
  /\ InitRest
  /\ InitSanIdle
  /\ InitMetricsIdle

SpecClassify == InitClassify /\ [][NextClassify]_vars

----------------------------------------------------------------------------
(* process_data.py: the classifiers and the Metrics of process_thread *)

\* the characters str.split, str.strip and \s treat as blank
Whitespace == {" ", "\n", "\t"}

Digits == {"0", "1", "2", "3", "4", "5", "6", "7", "8", "9"}

\* \w on ASCII text
WordChars == Range(UpperCase) \cup Range(LowerCase) \cup Digits \cup {"_"}

\* `phrase in text`
Contains(text, phrase) ==
  \E i \in 1..(Len(text) - Len(phrase) + 1) :
    text[i] = phrase[1] /\ SubSeq(text, i, i + Len(phrase) - 1) = phrase

\* the smallest element of a non-empty set of numbers
MinOf(S) == CHOOSE k \in S : \A m \in S : k <= m

\* the last index of the longest run of characters of cs that starts at from
\* (from - 1 when the run is empty): a greedy cs* of the pattern
RunEnd(text, from, cs) ==
  LET stops == {k \in from..Len(text) : text[k] \notin cs}
  IN  IF stops = {} THEN Len(text) ELSE MinOf(stops) - 1

\* \b between the characters i and i + 1 of text
WordBoundary(text, i) ==
  (i >= 1 /\ text[i] \in WordChars) # (i < Len(text) /\ text[i + 1] \in WordChars)

\* (?:hw|homework) at index i, ignoring case: the index of its last character, or 0
KeywordEnd(text, i) ==
  IF i + 1 <= Len(text) /\ LowerStr(SubSeq(text, i, i + 1)) = <<"h", "w">>
  THEN i + 1
  ELSE IF i + 7 <= Len(text)
          /\ LowerStr(SubSeq(text, i, i + 7)) = <<"h", "o", "m", "e", "w", "o", "r", "k">>
  THEN i + 7
  ELSE 0

\* HW_PATTERN (line 63) matched at index i: group 1, or <<>> when it does not
\* match there.  \s* and [0-9]+ can only take their whole runs (a shorter run
\* is followed by a character the next piece rejects); 0* gives back one zero
\* when the digits are all zeros.
HwMatch(text, i) ==
  LET k == KeywordEnd(text, i)
      a == RunEnd(text, k + 1, Whitespace)
      c == RunEnd(text, a + 1, Digits)
      z == RunEnd(text, a + 1, {"0"})
      b == Min(z, c - 1)
  IN  IF ~WordBoundary(text, i - 1) \/ k = 0 THEN <<>>
      ELSE IF c <= a \/ ~WordBoundary(text, c) THEN <<>>
      ELSE SubSeq(text, b + 1, c)

\* HW_PATTERN.search(text): group 1 of the leftmost match, <<>> for None
HwSearch(text) ==
  LET starts == {i \in 1..Len(text) : Lower(text[i]) = "h" /\ HwMatch(text, i) # <<>>}
  IN  IF starts = {} THEN <<>> ELSE HwMatch(text, MinOf(starts))

\* sys.int_info.default_max_str_digits: int() of a longer numeral raises ValueError
IntMaxStrDigits == 4300

\* str(int(numeral)): the numeral without its leading zeros
IntStr(numeral) ==
  LET nz == {k \in 1..Len(numeral) : numeral[k] # "0"}
  IN  IF nz = {} THEN <<"0">> ELSE SubSeq(numeral, MinOf(nz), Len(numeral))

Unknown == <<"U", "n", "k", "n", "o", "w", "n">>

\* lines 66-71
extract_homework_id(text) ==
  LET group == HwSearch(text)
  IN  IF group = <<>> THEN [raised |-> FALSE, value |-> Unknown]
      ELSE IF Len(group) > IntMaxStrDigits THEN [raised |-> TRUE, value |-> <<>>]
      ELSE [raised |-> FALSE, value |-> <<"H", "W">> \o IntStr(group)]

\* lines 74-83, in the order of the table
MODEL_KEYWORDS ==
  << [label |-> "Kimi",
      phrases |-> << <<"k", "i", "m", "i">> >>],
     [label |-> "Claude",
      phrases |-> << <<"c", "l", "a", "u", "d", "e">> >>],
     [label |-> "ChatGPT 5.1",
      phrases |-> << <<"5", ".", "1", " ", "t", "h", "i", "n", "k", "i", "n", "g">>,
                     <<"g", "p", "t", " ", "5", ".", "1">> >>],
     [label |-> "GPT-5",
      phrases |-> << <<"g", "p", "t", "5">>,
                     <<"g", "p", "t", " ", "5">> >>],
     [label |-> "ChatGPT (other)",
      phrases |-> << <<"c", "h", "a", "t", "g", "p", "t">> >>],
     [label |-> "DeepSeek",
      phrases |-> << <<"d", "e", "e", "p", "s", "e", "e", "k">> >>],
     [label |-> "LLaMA",
      phrases |-> << <<"l", "l", "a", "m", "a">> >>],
     [label |-> "LLM (unspecified)",
      phrases |-> << <<"l", "l", "m">>,
                     <<"l", "a", "n", "g", "u", "a", "g", "e", " ", "m", "o", "d", "e", "l">> >>] >>

\* the labels of the table as sorted() orders them
SortedLabels ==
  << "ChatGPT (other)", "ChatGPT 5.1", "Claude", "DeepSeek", "GPT-5", "Kimi", "LLM (unspecified)", "LLaMA" >>

UnknownMultiple == "Unknown / Multiple"

\* a test that never finds the hits ambiguous
TooManyLabels_never(unique) == FALSE

\* line 98
TooManyLabels(unique) == Len(unique) > 1

\* lines 86-100
detect_model_name(text_lower) ==
  LET hits == SelectSeq(MODEL_KEYWORDS,
                        LAMBDA e : \E j \in 1..Len(e.phrases) : Contains(text_lower, e.phrases[j]))
      unique == SelectSeq(SortedLabels, LAMBDA l : \E j \in 1..Len(hits) : hits[j].label = l)
  IN  IF hits = <<>> THEN UnknownMultiple
      ELSE IF TooManyLabels(unique) THEN UnknownMultiple
      ELSE unique[1]

\* lines 103-143
FOCUS_KEYWORDS ==
  << [label |-> "model_performance",
      phrases |-> << <<"h", "a", "l", "l", "u", "c", "i", "n", "a", "t", "i", "o", "n">>,
                     <<"h", "a", "l", "l", "u", "c", "i", "n", "a", "t", "e">>,
                     <<"c", "o", "r", "r", "e", "c", "t">>,
                     <<"i", "n", "c", "o", "r", "r", "e", "c", "t">>,
                     <<"m", "i", "s", "t", "a", "k", "e">>,
                     <<"e", "r", "r", "o", "r">>,
                     <<"a", "c", "c", "u", "r", "a", "c", "y">>,
                     <<"r", "e", "a", "s", "o", "n", "i", "n", "g">>,
                     <<"s", "o", "l", "v", "e">>,
                     <<"s", "o", "l", "u", "t", "i", "o", "n">> >>],
     [label |-> "assignment_feedback",
      phrases |-> << <<"a", "s", "s", "i", "g", "n", "m", "e", "n", "t">>,
                     <<"q", "u", "e", "s", "t", "i", "o", "n", " ", "w", "o", "r", "d", "i", "n", "g">>,
                     <<"a", "m", "b", "i", "g", "u", "o", "u", "s">>,
                     <<"c", "l", "a", "r", "i", "t", "y", " ", "o", "f", " ", "t", "h", "e", " ", "q", "u", "e", "s", "t", "i", "o", "n">>,
                     <<"p", "r", "o", "b", "l", "e", "m", " ", "s", "t", "a", "t", "e", "m", "e", "n", "t">> >>],
     [label |-> "prompting_strategy",
      phrases |-> << <<"p", "r", "o", "m", "p", "t">>,
                     <<"s", "y", "s", "t", "e", "m", " ", "p", "r", "o", "m", "p", "t">>,
                     <<"z", "e", "r", "o", "-", "s", "h", "o", "t">>,
                     <<"f", "e", "w", "-", "s", "h", "o", "t">>,
                     <<"c", "h", "a", "i", "n", "-", "o", "f", "-", "t", "h", "o", "u", "g", "h", "t">>,
                     <<"c", "o", "t">>,
                     <<"s", "t", "e", "p", " ", "b", "y", " ", "s", "t", "e", "p">>,
                     <<"t", "u", "r", "n", "-", "b", "y", "-", "t", "u", "r", "n">> >>],
     [label |-> "meta_reflection",
      phrases |-> << <<"r", "e", "f", "l", "e", "c", "t", "i", "o", "n">>,
                     <<"r", "e", "f", "l", "e", "c", "t">>,
                     <<"e", "x", "p", "e", "r", "i", "e", "n", "c", "e">>,
                     <<"t", "a", "k", "e", "a", "w", "a", "y">>,
                     <<"t", "a", "k", "e", "-", "a", "w", "a", "y">>,
                     <<"l", "e", "s", "s", "o", "n">>,
                     <<"l", "e", "a", "r", "n", "e", "d">>,
                     <<"m", "e", "t", "a">> >>] >>

\* lines 145-150
FOCUS_PRIORITY == << "model_performance", "assignment_feedback", "prompting_strategy", "meta_reflection" >>

MixedOther == "mixed/other"

\* lines 154-158: how many phrases of each label occur in the text
FocusScores(text_lower) ==
  [k \in 1..Len(FOCUS_KEYWORDS) |->
     Cardinality({j \in 1..Len(FOCUS_KEYWORDS[k].phrases) :
                    Contains(text_lower, FOCUS_KEYWORDS[k].phrases[j])})]

\* scores.get(label, 0)
ScoreOf(scores, label) ==
  IF \E k \in 1..Len(FOCUS_KEYWORDS) : FOCUS_KEYWORDS[k].label = label
  THEN scores[CHOOSE k \in 1..Len(FOCUS_KEYWORDS) : FOCUS_KEYWORDS[k].label = label]
  ELSE 0

\* a comparison that lets a later label of equal score win
Improves_or_ties(score, best_score) == score >= best_score

\* line 169
Improves(score, best_score) == score > best_score

\* lines 167-171: the loop over FOCUS_PRIORITY from position k on
RECURSIVE PickBest(_, _, _, _)
PickBest(scores, k, best_label, best_score) ==
  IF k > Len(FOCUS_PRIORITY) THEN [label |-> best_label, score |-> best_score]
  ELSE IF Improves(ScoreOf(scores, FOCUS_PRIORITY[k]), best_score)
  THEN PickBest(scores, k + 1, FOCUS_PRIORITY[k], ScoreOf(scores, FOCUS_PRIORITY[k]))
  ELSE PickBest(scores, k + 1, best_label, best_score)

\* max(scores.values())
MaxScore(scores) == CHOOSE m \in Range(scores) : \A x \in Range(scores) : x <= m

\* lines 153-174
determine_primary_focus(text_lower) ==
  LET scores == FocusScores(text_lower)
      best == PickBest(scores, 1, MixedOther, -1)
  IN  IF MaxScore(scores) = 0 THEN MixedOther
      ELSE IF best.score <= 0 THEN MixedOther
      ELSE best.label

\* lines 177-186
DEPTH_TERMS ==
  << <<"a", "n", "a", "l", "y", "s", "i", "s">>,
     <<"r", "e", "a", "s", "o", "n", "i", "n", "g">>,
     <<"d", "e", "r", "i", "v", "a", "t", "i", "o", "n">>,
     <<"s", "t", "e", "p", " ", "b", "y", " ", "s", "t", "e", "p">>,
     <<"c", "a", "r", "e", "f", "u", "l", "l", "y">>,
     <<"d", "e", "t", "a", "i", "l", "e", "d">>,
     <<"i", "n", "t", "u", "i", "t", "i", "o", "n">>,
     <<"d", "i", "s", "c", "u", "s", "s", "i", "o", "n">> >>

\* len(document.split()): the tokens are the maximal runs of non-blank characters
SplitCount(document) ==
  Cardinality({i \in 1..Len(document) :
                 document[i] \notin Whitespace /\ (i = 1 \/ document[i - 1] \in Whitespace)})

\* buckets whose lower ends are exclusive
DepthBucket_exclusive(score) ==
  IF score <= 200 THEN "low" ELSE IF score <= 600 THEN "medium" ELSE "high"

\* lines 199-204
DepthBucket(score) ==
  IF score < 200 THEN "low" ELSE IF score < 600 THEN "medium" ELSE "high"

\* lines 189-206
compute_depth_and_word_count(document) ==
  LET word_count == SplitCount(document)
      doc_lower == LowerStr(document)
      score == word_count
               + (IF \E j \in 1..Len(DEPTH_TERMS) : Contains(doc_lower, DEPTH_TERMS[j])
                  THEN 150 ELSE 0)
  IN  [bucket |-> DepthBucket(score), word_count |-> word_count]

\* lines 209-221
ACTIONABILITY_PHRASES ==
  << <<"s", "h", "o", "u", "l", "d">>,
     <<"r", "e", "c", "o", "m", "m", "e", "n", "d">>,
     <<"s", "u", "g", "g", "e", "s", "t">>,
     <<"c", "o", "u", "l", "d">>,
     <<"w", "o", "u", "l", "d">>,
     <<"m", "i", "g", "h", "t", " ", "b", "e", " ", "b", "e", "t", "t", "e", "r">>,
     <<"i", "m", "p", "r", "o", "v", "e">>,
     <<"c", "h", "a", "n", "g", "e">>,
     <<"c", "o", "n", "s", "i", "d", "e", "r">>,
     <<"i", "t", " ", "w", "o", "u", "l", "d", " ", "h", "e", "l", "p">>,
     <<"w", "e", " ", "c", "o", "u", "l", "d">> >>

\* lines 224-234
compute_actionability_bucket(text_lower) ==
  LET hits == Cardinality({j \in 1..Len(ACTIONABILITY_PHRASES) :
                             Contains(text_lower, ACTIONABILITY_PHRASES[j])})
  IN  IF hits = 0 THEN "low" ELSE IF hits <= 3 THEN "medium" ELSE "high"

\* lines 244-262 of process_thread: the Metrics of a record with the given title
\* and document; raised when extract_homework_id raises
BuildMetrics(title_raw, document_raw) ==
  LET title == Strip(title_raw, Whitespace)
      document == Strip(document_raw, Whitespace)
      combined == title \o <<"\n">> \o document
      combined_lower == LowerStr(combined)
      homework == extract_homework_id(combined)
      depth == compute_depth_and_word_count(document)
  IN  IF homework.raised THEN [raised |-> TRUE]
      ELSE [raised |-> FALSE,
            homework_id |-> homework.value,
            model_name |-> detect_model_name(combined_lower),
            primary_focus |-> determine_primary_focus(combined_lower),
            depth_bucket |-> depth.bucket,
            actionability_bucket |-> compute_actionability_bucket(combined_lower),
            word_count |-> depth.word_count]

\* process_thread called on the record
ProcessThread ==
  /\ metrics = <<>>
  /\ metrics' = <<BuildMetrics(raw_title, raw_document)>>
  /\ UNCHANGED <<raw_title, raw_document, oracle>>
  /\ UNCHANGED <<fetchVars, sanVars, classifyVars>>

NextMetrics == ProcessThread


----------------------------------------------------------------------------
(* The records process_thread is tried on *)

\* n copies of s
Repeat(s, n) == [i \in 1..(n * Len(s)) |-> s[((i - 1) % Len(s)) + 1]]

\* the texts made of up to n fragments of F
FragTexts(F, n) == {Concat(f) : f \in SeqsUpTo(F, n)}

\* the pipeline of fetch_threads.py is not running
InitFetchIdle ==
  /\ pc = "idle"
  /\ download_files = TRUE
  /\ batch_size = DefaultBatchSize
  /\ remote = <<>>
  /\ remote_honest = TRUE
  /\ InitRest

\* pieces of texts that name models
ModelFragments ==
  { <<"c", "l", "a", "u", "d", "e">>, <<"C", "l", "a", "u", "d", "e">>,
    <<"d", "e", "e", "p", "s", "e", "e", "k">>, <<"g", "p", "t">>, <<" ", "5">>,
    <<"g", "p", "t", " ", "5">>, <<"5">>, <<".", "1">>, <<"c", "h", "a", "t">>,
    <<"k", "i", "m", "i">>, <<"l", "l", "m">>, <<"l", "l", "a", "m", "a">>,
    <<"5", ".", "1", " ", "t", "h", "i", "n", "k", "i", "n", "g">>, <<" ", "x", " ">> }

\* process_thread on texts that name no, one or several models
InitModelName ==
  /\ raw_title \in {<<>>, <<"C", "l", "a", "u", "d", "e">>}
  /\ raw_document \in FragTexts(ModelFragments, MaxFrags)
  /\ metrics = <<>>
  /\ oracle = <<>>
  /\ InitFetchIdle
  /\ InitSanIdle
  /\ InitClassifyIdle

SpecModelName == InitModelName /\ [][NextMetrics]_vars

\* pieces of texts that hold focus phrases
FocusFragments ==
  { <<"a", "s", "s", "i", "g", "n", "m", "e", "n", "t">>,
    <<"A", "s", "s", "i", "g", "n", "m", "e", "n", "t">>,
    <<"a", "m", "b", "i", "g", "u", "o", "u", "s">>, <<"p", "r", "o", "m", "p", "t">>,
    <<"s", "y", "s", "t", "e", "m", " ">>, <<"c", "o", "t">>,
    <<"z", "e", "r", "o", "-", "s", "h", "o", "t">>, <<"c", "o", "r", "r", "e", "c", "t">>,
    <<"i", "n">>, <<"e", "r", "r", "o", "r">>, <<"r", "e", "f", "l", "e", "c", "t">>,
    <<"i", "o", "n">>, <<"l", "e", "s", "s", "o", "n">>, <<" ", "x", " ">> }

\* process_thread on texts that hold no, one or several focus phrases
InitFocus ==
  /\ raw_title \in {<<>>, <<"p", "r", "o", "m", "p", "t">>}
  /\ raw_document \in FragTexts(FocusFragments, MaxFrags)
  /\ metrics = <<>>
  /\ oracle = <<>>
  /\ InitFetchIdle
  /\ InitSanIdle
  /\ InitClassifyIdle

SpecFocus == InitFocus /\ [][NextMetrics]_vars

\* the scores at which a bucket of compute_depth_and_word_count begins, with and
\* without the bonus of 150
DepthMarks == {200 - 150, 200, 600 - 150, 600}

\* the numbers of filler tokens a body is given
DepthWordCounts == (0..Slack) \cup {t + d : t \in DepthMarks, d \in (0 - Slack)..Slack}

\* filler tokens with the blank that follows them; they hold no phrase of any table
DepthFillers == {<<"x", " ">>, <<"y", "\n", "\t">>}

\* what follows the filler: the text, its number of tokens, whether it holds a
\* depth term
DepthTails ==
  { [text |-> <<>>, words |-> 0, deep |-> FALSE],
    [text |-> <<"a", "n", "a", "l", "y", "s", "i", "s">>, words |-> 1, deep |-> TRUE],
    [text |-> <<"A", "n", "a", "l", "y", "s", "i", "s", ".">>, words |-> 1, deep |-> TRUE],
    [text |-> <<"p", "s", "y", "c", "h", "o", "a", "n", "a", "l", "y", "s", "i", "s">>, words |-> 1, deep |-> TRUE],
    [text |-> <<"s", "t", "e", "p", " ", "b", "y", " ", "s", "t", "e", "p">>, words |-> 3, deep |-> TRUE],
    [text |-> <<"s", "t", "e", "p", " ", " ", "b", "y", " ", "s", "t", "e", "p">>, words |-> 3, deep |-> FALSE],
    [text |-> <<"d", "e", "t", "a", "i", "l", "e", "d", " ", "a", "n", "a", "l", "y", "s", "i", "s", " ", "d", "i", "s", "c", "u", "s", "s", "i", "o", "n">>, words |-> 3, deep |-> TRUE],
    [text |-> <<"a", "n", "a", "l", "y", "s", " ", "i", "s">>, words |-> 2, deep |-> FALSE] }

\* process_thread on bodies of a known number of tokens, under a title that has
\* tokens and a depth term of its own
InitDepth ==
  /\ raw_title \in {<<>>, <<"d", "e", "t", "a", "i", "l", "e", "d", " ", "a", "n", "a", "l", "y", "s", "i", "s", " ", "o", "f", " ", "t", "h", "e", " ", "r", "u", "n">>}
  /\ \E n \in DepthWordCounts, filler \in DepthFillers, tail \in DepthTails :
       /\ raw_document = Repeat(filler, n) \o tail.text
       /\ oracle = [words |-> n + tail.words, deep |-> tail.deep]
  /\ metrics = <<>>
  /\ InitFetchIdle
  /\ InitSanIdle
  /\ InitClassifyIdle

SpecDepth == InitDepth /\ [][NextMetrics]_vars

\* what a mention of a homework is tried with: before it,
HwPrefixes ==
  { <<>>, <<"s">>, <<"_">>, <<"x", " ">>, <<"h", "w", "3", "a", " ">> }
\* its word,
HwKeywords ==
  { <<>>, <<"h", "w">>, <<"H", "w">>, <<"h", "o", "m", "e", "w", "o", "r", "k">>,
    <<"H", "o", "m", "e", "W", "o", "r", "k">> }
\* what separates the word from the number,
HwGaps ==
  { <<>>, <<" ">>, <<"\n", "\t">>, <<"-">> }
\* the number,
HwNumbers ==
  { <<>>, <<"0">>, <<"7">>, <<"0", "0", "7">>, <<"0", "0", "0">>, <<"1", "2">>,
    <<"0", "1", "2", "0">> }
\* and what follows
HwSuffixes ==
  { <<>>, <<"a">>, <<"_">>, <<".", "5">>, <<" ", "h", "w", "9">> }

\* bodies with a mention put together from these pieces
HwShortTexts ==
  {p \o k \o g \o n \o s : p \in HwPrefixes, k \in HwKeywords, g \in HwGaps,
                           n \in HwNumbers, s \in HwSuffixes}

\* bodies whose homework number is about as long as int() accepts
HwLongTexts ==
  {<<"h", "w">> \o z \o Repeat(<<"1">>, IntMaxStrDigits + d) :
     z \in {<<>>, <<"0", "0">>}, d \in (0 - Slack)..Slack}

\* process_thread on texts that mention a homework, or almost
InitHomework ==
  /\ raw_title \in {<<>>, <<"H", "W">>}
  /\ raw_document \in HwShortTexts \cup HwLongTexts
  /\ metrics = <<>>
  /\ oracle = <<>>
  /\ InitFetchIdle
  /\ InitSanIdle
  /\ InitClassifyIdle

SpecHomework == InitHomework /\ [][NextMetrics]_vars


----------------------------------------------------------------------------
(* Properties *)

\* a page that ends the pagination: empty, or shorter than the limit asked for
ShortPage(r) == r.returned = 0 \/ r.returned < r.limit

\* C1: fetch_all_threads issues its requests at offsets 0, batch_size,
\* 2*batch_size, ...; a request that returns an empty or short page is the last
\* one, and the loop has stopped exactly when the last request was such a page.
C1_PaginationStopsAtShortPage ==
  /\ \A i \in 1..Len(requests) :
       /\ requests[i].offset = (i - 1) * batch_size
       /\ requests[i].limit = batch_size
       /\ ShortPage(requests[i]) => i = Len(requests) /\ pc = "fetched"
  /\ pc = "fetched" => Len(requests) >= 1 /\ ShortPage(requests[Len(requests)])

\* 150 threads, batch_size 100: two requests, 100 then 50, and the loop has ended
C1_Witness ==
  /\ pc = "fetched"
  /\ batch_size = 100
  /\ Len(requests) = 2
  /\ requests[1].returned = 100
  /\ requests[2].returned = 50
  /\ Len(all_threads) = 150

\* the steps taken on the references of the t-th filtered thread
AttemptsOf(t) == {a \in attempts : a.thread = t}

\* the t-th filtered thread left no record: it has no markup, or none of its
\* references survived
NoSurvivor(t) ==
  \/ filtered_threads[t].content = <<>>
  \/ \A a \in AttemptsOf(t) : a.download = "failed"

\* C2: once every filtered thread is processed and the manifest written, each
\* entry of the manifest lists at least one record, and a thread without markup
\* or whose downloads all failed has contributed no entry.
C2_ManifestOnlySurvivingThreads ==
  manifest_json # <<>> =>
    LET m == manifest_json[1] IN
    /\ \A k \in DOMAIN m : m[k].files # <<>>
    /\ \A t \in 1..Len(filtered_threads) :
         NoSurvivor(t) => \A k \in DOMAIN m : m[k].thread_id # filtered_threads[t].id

\* two threads with markup: every download of the first failed, the second is
\* in the written manifest
C2_Witness ==
  /\ pc = "done"
  /\ Len(filtered_threads) = 2
  /\ AttemptsOf(1) # {}
  /\ \A a \in AttemptsOf(1) : a.download = "failed"
  /\ \E k \in DOMAIN manifest_json[1] : manifest_json[1][k].thread_id = filtered_threads[2].id

\* the record of the reference at position k among recs, if any
RecordsAt(recs, k) == {j \in 1..Len(recs) : recs[j].position = k}

\* C3: in download mode a failed download never ends the run or the thread: of
\* a thread that was processed, every scanned reference was attempted, and it
\* has a record exactly when its own download succeeded.
C3_FailedDownloadSkipsOnlyItself ==
  download_files =>
    /\ pc # "crashed"
    /\ \A t \in DOMAIN results :
         \A k \in 1..Len(filtered_threads[t].content) :
           \E a \in AttemptsOf(t) :
             /\ a.position = k
             /\ a.download \in {"ok", "failed"}
             /\ (a.download = "ok") <=> (RecordsAt(results[t], k) # {})

\* three references, the middle download failed, the outer two have records
C3_Witness ==
  /\ download_files
  /\ 1 \in DOMAIN results
  /\ Len(filtered_threads[1].content) = 3
  /\ \E a \in AttemptsOf(1) : a.position = 2 /\ a.download = "failed"
  /\ RecordsAt(results[1], 1) # {}
  /\ RecordsAt(results[1], 2) = {}
  /\ RecordsAt(results[1], 3) # {}

Aborted == pc \in {"fatal", "crashed"}

\* C5: a run that got its threads (fetched or loaded) reaches its end with
\* manifest.json and threads.json written, whatever downloads and conversions
\* fail on the way; a run is only ever aborted by the login of the fetch step.
C5_RunCompletes ==
  /\ (pc = "fetched") ~> (pc = "done" /\ manifest_json # <<>> /\ threads_json # <<>>)
  /\ [][(pc' \in {"fatal", "crashed"} /\ ~Aborted) => pc = "login"]_vars

\* a finished run in which a download and a conversion failed
C5_Witness ==
  /\ pc = "done"
  /\ manifest_json # <<>>
  /\ threads_json # <<>>
  /\ \E a \in attempts : a.download = "failed"
  /\ \E a \in attempts : a.render = "error"

\* the line of the log that names the attachment of step a
LoggedAbout(a) ==
  \E i \in 1..Len(log) :
    \/ log[i].kind = "Error downloading" /\ log[i].unit = a.url
    \/ log[i].kind \in {"Error extracting text", "PyMuPDF not installed"} /\ log[i].unit = a.path

\* C7: in no-download mode no network call is made for any attachment, and every
\* scanned reference of a processed thread has a record and an empty
\* placeholder file at destDir/sanitize(filename).
C7_NoDownloadPlaceholders ==
  ~download_files =>
    /\ \A a \in attempts : ~a.network
    /\ \A t \in DOMAIN results :
         \A k \in 1..Len(filtered_threads[t].content) :
           /\ RecordsAt(results[t], k) # {}
           /\ \E a \in AttemptsOf(t) :
                a.position = k /\ a.path \in DOMAIN disk /\ disk[a.path] = "empty"

\* C8: a record carries a transcript pointer exactly when a non-empty text was
\* extracted from its attachment and written, and the pointer names a file
\* that exists; a record of a name that does not end in .pdf has no pointer.
C8_TranscriptIffProduced ==
  \A t \in DOMAIN results :
    \A j \in 1..Len(results[t]) :
      LET r == results[t][j] IN
      \E a \in AttemptsOf(t) :
        /\ a.position = r.position
        /\ (r.transcript # <<>>) <=> (a.render = "text" /\ a.transcript_written)
        /\ r.transcript # <<>> => Resolve(Components(r.transcript), <<>>) \in DOMAIN disk
        /\ ~EndsWith(LowerStr(sanitize_filename(r.original_filename)), Str(<<".", "p", "d", "f">>))
             => r.transcript = <<>>

\* one thread: a PDF with a transcript, a PDF whose conversion gave nothing, and
\* a text file, each with its record
C8_Witness ==
  /\ 1 \in DOMAIN results
  /\ Len(results[1]) = 3
  /\ \E j \in 1..3 : results[1][j].transcript # <<>>
  /\ \E j \in 1..3 : /\ results[1][j].transcript = <<>>
                     /\ \E a \in AttemptsOf(1) : a.position = results[1][j].position
                                                 /\ a.render \in {"error", "empty"}
  /\ \E j \in 1..3 : results[1][j].original_filename = NameTxt /\ results[1][j].transcript = <<>>

\* C9: sanitize_filename applied to its own result changes nothing, and no
\* result holds any of  < > : " / \ | ? *
C9_SanitizeIdempotent ==
  /\ \A i \in 1..Len(sanOut) : Range(sanOut[i]) \cap {"<", ">", ":", "\"", "/", "\\", "|", "?", "*"} = {}
  /\ Len(sanOut) = 2 => sanOut[2] = sanOut[1]

\* a name that is trimmed and has a character replaced, sanitized twice
C9_Witness ==
  /\ Len(sanOut) = 2
  /\ sanIn = <<" ", "/", ".">>
  /\ sanOut[1] = <<"_">>

\* C10: the saved path of every record, with "." and ".." resolved, stays
\* inside the directory files/thread_<number> of the record's thread.
C10_SavedPathUnderThreadDir ==
  \A t \in DOMAIN results :
    \A j \in 1..Len(results[t]) :
      IsPrefix(ThreadDir(ThreadNum(filtered_threads[t])),
               Resolve(Components(results[t][j].saved_as), <<>>))

\* records of a name made of dots and of a name made of separators and blanks
C10_Witness ==
  \E t \in DOMAIN results :
    \E j \in 1..Len(results[t]) :
      /\ results[t][j].original_filename \in {<<".", ".">>, <<"/", " ", "\\">>, <<".", ".", "/">>}
      /\ Range(results[t][j].original_filename) \subseteq {".", " ", "/", "\\"}

\* the records of threads.json the loop has dealt with so far
Handled == IF cpc \in {"loop", "done"} THEN SubSeq(threads_raw.items, 1, ci - 1) ELSE <<>>

\* C4: a record whose processing fails is logged with its id and left out of the
\* posts, and the run goes on: it never aborts in the loop, the warnings are
\* those of the failed records in order, the posts those of the others, and a
\* finished run has written posts_processed.json.
C4_ClassifyFailureIsolated ==
  /\ cpc # "aborted"
  /\ [i \in 1..Len(clog) |-> clog[i].id]
       = [i \in 1..Len(SelectSeq(Handled, LAMBDA r : ~process_thread(r).ok)) |->
            RawGetId(SelectSeq(Handled, LAMBDA r : ~process_thread(r).ok)[i])]
  /\ Len(processed) = Len(SelectSeq(Handled, LAMBDA r : process_thread(r).ok))
  /\ cpc = "done" => posts_json = <<processed>>

\* C6: every soft failure leaves a line that names its unit: a failed download,
\* a failed conversion and a failed placeholder write name the attachment, a
\* failed classification names the thread.
C6_EveryFailureLogged ==
  /\ \A a \in attempts :
       (a.download = "failed" \/ a.render = "error" \/ a.placeholder = "failed") => LoggedAbout(a)
  /\ Len(clog) = Len(SelectSeq(Handled, LAMBDA r : ~process_thread(r).ok))

\* the filtered threads for which process_thread_files returned a record
Survivors == {t \in DOMAIN results : results[t] # <<>>}

\* C11: the written manifest has one entry per thread that produced a surviving
\* record, under that thread's number: as many entries as such threads, and the
\* entry under a thread's number is that thread's own (its id, its records).
C11_ManifestOneEntryPerThread ==
  manifest_json # <<>> =>
    LET m == manifest_json[1] IN
    /\ Cardinality(DOMAIN m) = Cardinality(Survivors)
    /\ \A t \in Survivors :
         LET k == ThreadNum(filtered_threads[t]) IN
         /\ k \in DOMAIN m
         /\ m[k].thread_id = filtered_threads[t].id
         /\ m[k].files = results[t]

\* C16: after a thread is processed, no transcript path recorded for it is the
\* saved path of one of its records.
C16_TranscriptNeverSharesPath ==
  \A t \in DOMAIN results :
    \A i, j \in 1..Len(results[t]) :
      results[t][i].transcript # <<>> => results[t][i].transcript # results[t][j].saved_as

\* the text process_thread classifies: title and body, trimmed and joined
Combined == Strip(raw_title, Whitespace) \o <<"\n">> \o Strip(raw_document, Whitespace)

\* the labels of the model table that have a phrase in the text
LabelsHit(text_lower) ==
  {MODEL_KEYWORDS[k].label :
     k \in {k \in 1..Len(MODEL_KEYWORDS) :
              \E j \in 1..Len(MODEL_KEYWORDS[k].phrases) :
                Contains(text_lower, MODEL_KEYWORDS[k].phrases[j])}}

\* C12: the model name is a label of the table exactly when that label is the
\* only one with a phrase in the lower-cased text; with no label or with two or
\* more labels hit it is "Unknown / Multiple".
C12_ModelNameOnlyWhenSingleLabel ==
  metrics # <<>> =>
    LET hit == LabelsHit(LowerStr(Combined))
        name == metrics[1].model_name
    IN  /\ \A k \in 1..Len(MODEL_KEYWORDS) :
             name = MODEL_KEYWORDS[k].label <=> hit = {MODEL_KEYWORDS[k].label}
        /\ Cardinality(hit) # 1 => name = UnknownMultiple

\* a text in which both "claude" and "deepseek" occur was classified
C12_Witness ==
  /\ metrics # <<>>
  /\ Contains(LowerStr(Combined), <<"c", "l", "a", "u", "d", "e">>)
  /\ Contains(LowerStr(Combined), <<"d", "e", "e", "p", "s", "e", "e", "k">>)
  /\ metrics[1].model_name = UnknownMultiple

\* C13: the primary focus is "mixed/other" exactly when the four scores are 0;
\* otherwise it is a label of maximal score, and every label before it in the
\* priority order scores less.
C13_PrimaryFocusByPriority ==
  metrics # <<>> =>
    LET scores == FocusScores(LowerStr(Combined))
        focus == metrics[1].primary_focus
        top == MaxScore(scores)
    IN  /\ focus = MixedOther <=> \A k \in 1..Len(FOCUS_KEYWORDS) : scores[k] = 0
        /\ focus # MixedOther =>
             \E p \in 1..Len(FOCUS_PRIORITY) :
               /\ FOCUS_PRIORITY[p] = focus
               /\ ScoreOf(scores, focus) = top
               /\ \A q \in 1..(p - 1) : ScoreOf(scores, FOCUS_PRIORITY[q]) < top

\* assignment_feedback and prompting_strategy tie at the top with a nonzero
\* score and assignment_feedback is returned
C13_Witness ==
  /\ metrics # <<>>
  /\ LET scores == FocusScores(LowerStr(Combined)) IN
       /\ ScoreOf(scores, "assignment_feedback") = MaxScore(scores)
       /\ ScoreOf(scores, "prompting_strategy") = MaxScore(scores)
       /\ MaxScore(scores) > 0
  /\ metrics[1].primary_focus = "assignment_feedback"

\* C14: word_count is the number of tokens the body was put together from
\* (whatever the title), and the bucket is that of word_count plus 150 when the
\* body holds a depth term: low below 200, medium below 600, high from 600 on.
C14_DepthFromBodyTokens ==
  metrics # <<>> =>
    LET score == oracle.words + (IF oracle.deep THEN 150 ELSE 0) IN
    /\ metrics[1].word_count = oracle.words
    /\ metrics[1].depth_bucket =
         IF score < 200 THEN "low" ELSE IF score < 600 THEN "medium" ELSE "high"

\* a body of 199 tokens with a depth term, under a title with tokens of its
\* own, was counted as 199 words and put in the medium bucket
C14_Witness ==
  /\ metrics # <<>>
  /\ raw_title # <<>>
  /\ oracle = [words |-> 199, deep |-> TRUE]
  /\ metrics[1].word_count = 199
  /\ metrics[1].depth_bucket = "medium"

\* the text holds a match of HW_PATTERN
HwMentioned(text) == \E i \in 1..Len(text) : HwMatch(text, i) # <<>>

\* C15: for every text the homework id is "Unknown" or "HW" followed by digits
\* without leading zeros, and it is "Unknown" exactly when the text holds no
\* mention of a homework.
C15_HomeworkIdWellFormed ==
  metrics # <<>> =>
    /\ ~metrics[1].raised
    /\ LET h == metrics[1].homework_id IN
         \/ h = Unknown /\ ~HwMentioned(Combined)
         \/ /\ HwMentioned(Combined)
            /\ Len(h) >= 3
            /\ SubSeq(h, 1, 2) = <<"H", "W">>
            /\ \A k \in 3..Len(h) : h[k] \in Digits
            /\ Len(h) > 3 => h[3] # "0"

====
